---- MODULE Spec2Model ----
(***************************************************************************)
(* Model of the simulation queue of KQCircuits:                            *)
(*   klayout_package/python/kqcircuits/simulations/simulation_queue.py     *)
(*   simulation_queue/run_simulation_queue.py                              *)
(*   finalize_results.py, simulations_database/tools/simulation_db.py      *)
(* The runner (main) loads a queue file, optionally asks for confirmation, *)
(* runs SimulationQueue.execute and exits with a status code.  Every       *)
(* external process (the simulation script, the ANSYS batch file) is a     *)
(* step whose result is chosen nondeterministically.                       *)
(* SpecQueue is a client of SimulationQueue that saves and loads a queue,  *)
(* SpecRegister a call of SimulationDB.register_simulations, SpecSweep the *)
(* sweep detection and the sweep folder name of that call.                 *)
(***************************************************************************)
EXTENDS Naturals, Integers, Sequences, FiniteSets, TLC

\* ---------------------------------------------------------------- bounds
NumRuns == 2         \* number of runs in the queue file
MaxInterrupts == 1   \* number of KeyboardInterrupts the user sends

\* ------------------------------------------------------- optional values
None == <<>>
Some(v) == <<v>>

\* ------------------------------------------------------------ SimulationRun
Statuses == {"pending", "running", "completed", "failed"}

\* A run as it is stored in a queue file: a fresh run, or a run left behind
\* by an earlier execution in the given status.
StoredRun(en, st) ==
  [enabled |-> en,
   status |-> st,
   output_folder |-> IF st = "completed" THEN Some("out") ELSE None,
   bat_file |-> IF st = "completed" THEN Some("simulation.bat") ELSE None,
   start_time |-> IF st = "pending" THEN None ELSE Some(0),
   end_time |-> IF st \in {"completed", "failed"} THEN Some(0) ELSE None,
   duration_seconds |-> IF st \in {"completed", "failed"} THEN Some(0) ELSE None,
   error_message |-> IF st = "failed" THEN Some("Script failed with exit code") ELSE None,
   exit_code |-> IF st = "completed" THEN Some(0)
                 ELSE IF st = "failed" THEN Some(1) ELSE None]

StoredRuns == {StoredRun(en, st) : en \in BOOLEAN, st \in Statuses}

\* ------------------------------------------------------------ queue files
FileNames == {"queue.json", "saved_state.json",
              "interrupted_state.json", "error_state.json"}

Absent == [kind |-> "absent", error_handling |-> "", runs |-> <<>>]
Corrupt == [kind |-> "corrupt", error_handling |-> "", runs |-> <<>>]

\* SimulationQueue.save: the queue as JSON
Save(eh, rs) == [kind |-> "queue", error_handling |-> eh, runs |-> rs]

\* SimulationQueue.load succeeds on a file that exists and holds a queue
Loadable(content) == content.kind = "queue"

QueueFiles ==
  {Save(eh, rs) : eh \in {"continue", "stop"},
                  rs \in [1..NumRuns -> StoredRuns]}

\* ------------------------------------------------------ SimulationQueue
Indices(rs) == [i \in 1..Len(rs) |-> i]

\* mutant: the enabled flag is ignored
EnabledRunsAll(rs) == Indices(rs)

\* enabled_runs = [run for run in self.runs if run.enabled]
EnabledRuns(rs) == SelectSeq(Indices(rs), LAMBDA i : rs[i].enabled)

\* pending_runs = [run for run in enabled_runs if run.status == "pending"]
PendingRuns(rs) == SelectSeq(EnabledRuns(rs), LAMBDA i : rs[i].status = "pending")

\* runs_to_execute of execute(resume)
RunsToExecute(rs, resume) ==
  IF resume THEN PendingRuns(rs) ELSE EnabledRuns(rs)

\* mutant: the loop never breaks
HaltsQueueNever(eh) == FALSE

\* mutant: the loop breaks after any failure
HaltsQueueAlways(eh) == TRUE

\* the break of the execute loop after a failed run
HaltsQueue(eh) == eh = "stop"

\* results of the simulation script, as _execute_python_script tells them apart
ScriptResults == {"exception", "nonzero", "no_folder", "ok"}
\* results of the batch file, as _execute_batch_file tells them apart
BatchResults == {"exception", "nonzero", "zero"}

\* _execute_python_script returns True
ScriptSucceeded(result) == result = "ok"

\* mutant: the exit code of the batch file is not checked
BatchSucceededIgnoresExit(result) == result # "exception"

\* _execute_batch_file returns True once the batch file has run
BatchSucceeded(result) == result = "zero"

\* ------------------------------------------------------------- the runner
Responses == {"y", "yes", "Y", " Yes ", "n", "", "no"}

\* response.strip().lower()
StripLower(r) ==
  CASE r = "Y" -> "y"
    [] r = " Yes " -> "yes"
    [] OTHER -> r

\* mutant: anything but a no counts as confirmation
ConfirmExecutionDefaultYes(r) == StripLower(r) \notin {"n", "no"}

\* confirm_execution
ConfirmExecution(r) == StripLower(r) = "y" \/ StripLower(r) = "yes"

\* mutant: failed runs do not change the exit code
ExitCodeForZero(failed) == 0

\* exit code of main after execute has returned
ExitCodeFor(failed) == IF failed > 0 THEN 1 ELSE 0

NoSummary == [status |-> "none", runs_completed |-> 0, runs_failed |-> 0,
              total_runs |-> None]

VARIABLES
  disk,            \* file name -> content
  args,            \* command line of the runner
  pc,              \* position of the runner process
  exit_status,     \* exit code of the runner process, None while it runs
  runs,            \* queue.runs
  error_handling,  \* queue.error_handling
  runs_to_execute, \* execute: indices of the runs of the for loop
  idx,             \* execute: position of the for loop (1-based)
  runs_completed,  \* execute: counter
  runs_failed,     \* execute: counter
  summary,         \* value returned by execute
  now,             \* wall clock
  db,              \* run -> status in metadata.json of its registered simulations
  interrupts,      \* KeyboardInterrupts sent so far
  pre,             \* history: queue.runs when execute was called
  events,          \* history: process events of the current execute call
  how,             \* history: the way the runner reached its exit
  response,        \* history: "yes" if the prompt was answered y or yes (any
                   \* case, blanks around it), "other" for any other answer
  raised_by,       \* history: the call that raised an unexpected exception
  disk0,           \* history: the files when the runner was started
  interrupted_run, \* history: run in progress at the last KeyboardInterrupt
  resumed,         \* history: this invocation runs the interrupted state file
  queue,           \* library client: a SimulationQueue object
  loaded,          \* library client: the value of SimulationQueue.load
  written,         \* history: path -> the queue that save wrote there
  files,           \* library client: path -> JSON document or directory
  simulations,     \* register_simulations: simulations argument
  export_parameters, \* register_simulations: export_parameters argument
  output_folder,   \* register_simulations: output_folder argument
  varied_params,   \* value of _detect_varied_parameters
  sweep_folder_name, \* value of _generate_sweep_folder_name
  db_folders       \* value of register_simulations

vars == <<disk, args, pc, exit_status, runs, error_handling, runs_to_execute,
          idx, runs_completed, runs_failed, summary, now, db, interrupts,
          pre, events, how, response, raised_by, disk0, interrupted_run,
          resumed, queue, loaded, written, files, simulations,
          export_parameters, output_folder, varied_params,
          sweep_folder_name, db_folders>>

queueVars == <<runs, error_handling>>
execVars == <<runs_to_execute, idx, runs_completed, runs_failed, summary>>
histVars == <<pre, events, how, response, raised_by, disk0, interrupted_run,
              resumed>>
runnerVars == <<disk, args, pc, exit_status, queueVars, execVars, now, db,
                interrupts, histVars>>
libVars == <<queue, loaded, written, files, simulations, export_parameters,
             output_folder, varied_params, sweep_folder_name, db_folders>>

ArgSets ==
  [queue_file : {"queue.json"}, dry_run : BOOLEAN, yes : BOOLEAN,
   resume : BOOLEAN, save_state : {None, Some("saved_state.json")}]

\* the runner uses neither a second queue object nor the simulation database
LibraryUnused ==
  /\ queue = None
  /\ loaded = None
  /\ written = <<>>
  /\ files = <<>>
  /\ simulations = <<>>
  /\ export_parameters = <<>>
  /\ output_folder = None
  /\ varied_params = None
  /\ sweep_folder_name = None
  /\ db_folders = None

Init ==
  /\ \E q \in QueueFiles \cup {Absent, Corrupt} :
       disk = [f \in FileNames |-> IF f = "queue.json" THEN q ELSE Absent]
  /\ args \in ArgSets
  /\ pc = "main"
  /\ exit_status = None
  /\ runs = <<>>
  /\ error_handling = "continue"
  /\ runs_to_execute = <<>>
  /\ idx = 1
  /\ runs_completed = 0
  /\ runs_failed = 0
  /\ summary = NoSummary
  /\ now = 1
  /\ db = [i \in 1..NumRuns |-> "none"]
  /\ interrupts = 0
  /\ pre = <<>>
  /\ events = <<>>
  /\ how = "running"
  /\ response = "none"
  /\ raised_by = "none"
  /\ disk0 = disk
  /\ interrupted_run = 0
  /\ resumed = FALSE
  /\ LibraryUnused

\* sys.exit(code), or main returning (code 0)
Exit(code, way) ==
  /\ pc' = "exit"
  /\ exit_status' = Some(code)
  /\ how' = way

\* main: check the queue file and load it (run_simulation_queue.py 126-141)
MainLoad ==
  /\ pc = "main"
  /\ LET content == disk[args.queue_file] IN
       IF content.kind = "absent"
       THEN Exit(1, "missing") /\ UNCHANGED queueVars
       ELSE IF ~Loadable(content)
       THEN Exit(1, "load_error") /\ UNCHANGED queueVars
       ELSE /\ runs' = content.runs
            /\ error_handling' = content.error_handling
            /\ pc' = "loaded"
            /\ UNCHANGED <<exit_status, how>>
  /\ UNCHANGED <<disk, args, execVars, now, db, interrupts, pre, events,
                 response, raised_by, disk0, interrupted_run, resumed>>
  /\ UNCHANGED libVars

\* main: --dry-run shows the summary and returns (143-146)
MainDryRun ==
  /\ pc = "loaded"
  /\ args.dry_run
  /\ Exit(0, "dry_run")
  /\ UNCHANGED <<disk, args, queueVars, execVars, now, db, interrupts, pre,
                 events, response, raised_by, disk0, interrupted_run, resumed>>
  /\ UNCHANGED libVars

\* main: confirmation prompt unless --yes (156-160)
MainConfirm ==
  /\ pc = "loaded"
  /\ ~args.dry_run
  /\ IF args.yes
     THEN pc' = "execute" /\ UNCHANGED <<exit_status, how, response>>
     ELSE \E r \in Responses :
            /\ response' = IF StripLower(r) \in {"y", "yes"} THEN "yes" ELSE "other"
            /\ IF ConfirmExecution(r)
               THEN pc' = "execute" /\ UNCHANGED <<exit_status, how>>
               ELSE Exit(0, "cancelled")
  /\ UNCHANGED <<disk, args, queueVars, execVars, now, db, interrupts, pre,
                 events, raised_by, disk0, interrupted_run, resumed>>
  /\ UNCHANGED libVars

\* ------------------------------------------------- SimulationQueue.execute
Event(e, i, r) == [ev |-> e, run |-> i, result |-> r]

EmptySummary == [status |-> "empty", runs_completed |-> 0, runs_failed |-> 0,
                 total_runs |-> None]

\* execute up to the for loop (simulation_queue.py 443-472)
ExecuteBegin ==
  /\ pc = "execute"
  /\ pre' = runs
  /\ events' = <<>>
  /\ idx' = 1
  /\ runs_completed' = 0
  /\ runs_failed' = 0
  /\ IF EnabledRuns(runs) = <<>>
     THEN /\ runs_to_execute' = <<>>
          /\ summary' = EmptySummary
          /\ pc' = "executed"
     ELSE /\ runs_to_execute' = RunsToExecute(runs, args.resume)
          /\ summary' = summary
          /\ pc' = IF RunsToExecute(runs, args.resume) = <<>>
                   THEN "summary" ELSE "loop"
  /\ UNCHANGED <<disk, args, exit_status, queueVars, now, db, interrupts,
                 how, response, raised_by, disk0, interrupted_run, resumed>>
  /\ UNCHANGED libVars

\* _setup_logging cannot create its directory or log file: execute raises
ExecuteSetupRaises ==
  /\ pc = "execute"
  /\ pc' = "exception"
  /\ raised_by' = "execute"
  /\ pre' = runs
  /\ events' = <<>>
  /\ UNCHANGED <<disk, args, exit_status, queueVars, execVars, now, db,
                 interrupts, how, response, disk0, interrupted_run, resumed>>
  /\ UNCHANGED libVars

\* _execute_run up to the start of the script (395-405, 273-287); the _log
\* call of line 275 is outside the try block and may raise
StartRun ==
  /\ pc = "loop"
  /\ idx <= Len(runs_to_execute)
  /\ LET i == runs_to_execute[idx] IN
       /\ runs' = [runs EXCEPT ![i].status = "running",
                               ![i].start_time = Some(now)]
       /\ events' = Append(events, Event("start", i, ""))
  /\ \E logOk \in BOOLEAN :
       /\ pc' = IF logOk THEN "script" ELSE "exception"
       /\ raised_by' = IF logOk THEN raised_by ELSE "execute"
  /\ UNCHANGED <<disk, args, exit_status, error_handling, execVars, now, db,
                 interrupts, pre, how, response, disk0, interrupted_run,
                 resumed>>
  /\ UNCHANGED libVars

\* mutant: the status of a failed run is not updated
FailedStaysRunning(r, msg) ==
  [r EXCEPT !.end_time = Some(now),
            !.duration_seconds = Some(now - r.start_time[1]),
            !.error_message = Some(msg)]

\* run.status = "failed" with the timing fields (409-411, 417-419)
Failed(r, msg) ==
  [r EXCEPT !.status = "failed",
            !.end_time = Some(now),
            !.duration_seconds = Some(now - r.start_time[1]),
            !.error_message = Some(msg)]

\* run.status = "completed" with the timing fields (424-426)
Completed(r) ==
  [r EXCEPT !.status = "completed",
            !.end_time = Some(now),
            !.duration_seconds = Some(now - r.start_time[1])]

\* the body of the for loop after _execute_run has returned (475-485)
AfterRun(success) ==
  /\ runs_completed' = IF success THEN runs_completed + 1 ELSE runs_completed
  /\ runs_failed' = IF success THEN runs_failed ELSE runs_failed + 1
  /\ idx' = idx + 1
  /\ pc' = IF (~success /\ HaltsQueue(error_handling))
              \/ idx + 1 > Len(runs_to_execute)
           THEN "summary" ELSE "loop"
  /\ UNCHANGED <<runs_to_execute, summary>>

\* the script has returned: rest of _execute_python_script (289-323), then
\* _execute_batch_file up to the start of the batch file (336-355)
ScriptReturns ==
  /\ pc = "script"
  /\ now' = now + 1
  /\ \E result \in ScriptResults, found \in BOOLEAN :
       LET i == runs_to_execute[idx]
           r == runs[i]
           ev == Append(events, Event("script", i, result))
       IN
       IF ~ScriptSucceeded(result)
       THEN /\ runs' = [runs EXCEPT ![i] =
                 CASE result = "exception" ->
                        Failed(r, "Exception during script execution")
                   [] result = "nonzero" ->
                        Failed([r EXCEPT !.exit_code = Some(1)],
                               "Script failed with exit code")
                   [] OTHER ->
                        Failed(r, "Could not find output folder in script output")]
            /\ events' = Append(ev, Event("end", i, "failed"))
            /\ db' = db
            /\ AfterRun(FALSE)
       ELSE /\ db' = [db EXCEPT ![i] = "pending"]
            /\ IF ~found
               THEN /\ runs' = [runs EXCEPT ![i] =
                         Failed([r EXCEPT !.output_folder = Some("out")],
                                "Could not find batch file")]
                    /\ events' = Append(Append(ev, Event("find", i, "missing")),
                                        Event("end", i, "failed"))
                    /\ AfterRun(FALSE)
               ELSE /\ runs' = [runs EXCEPT ![i].output_folder = Some("out"),
                                            ![i].bat_file = Some("simulation.bat")]
                    /\ events' = Append(Append(ev, Event("find", i, "found")),
                                        Event("batch_start", i, ""))
                    /\ pc' = "batch"
                    /\ UNCHANGED execVars
  /\ UNCHANGED <<disk, args, exit_status, error_handling, interrupts, pre,
                 how, response, raised_by, disk0, interrupted_run, resumed>>
  /\ UNCHANGED libVars

\* the batch file has returned: rest of _execute_batch_file (357-380) and of
\* _execute_run (416-431)
BatchReturns ==
  /\ pc = "batch"
  /\ now' = now + 1
  /\ \E result \in BatchResults :
       LET i == runs_to_execute[idx]
           r == runs[i]
           ev == Append(events, Event("batch", i, result))
       IN
       IF BatchSucceeded(result)
       THEN /\ runs' = [runs EXCEPT ![i] =
                          Completed([r EXCEPT !.exit_code = Some(0)])]
            /\ events' = Append(ev, Event("end", i, "completed"))
            /\ AfterRun(TRUE)
       ELSE /\ runs' = [runs EXCEPT ![i] =
                 IF result = "exception"
                 THEN Failed(r, "Exception during batch execution")
                 ELSE Failed([r EXCEPT !.exit_code = Some(1)],
                             "Batch file failed with exit code")]
            /\ events' = Append(ev, Event("end", i, "failed"))
            /\ AfterRun(FALSE)
  /\ UNCHANGED <<disk, args, exit_status, error_handling, db, interrupts, pre,
                 how, response, raised_by, disk0, interrupted_run, resumed>>
  /\ UNCHANGED libVars

\* Ctrl-C while the script or the batch file runs: KeyboardInterrupt is not
\* an Exception, so it leaves _execute_run and execute (277-323, 347-380)
KeyboardInterrupt ==
  /\ pc \in {"script", "batch"}
  /\ interrupts < MaxInterrupts
  /\ interrupts' = interrupts + 1
  /\ interrupted_run' = runs_to_execute[idx]
  /\ pc' = "interrupt"
  /\ UNCHANGED <<disk, args, exit_status, queueVars, execVars, now, db, pre,
                 events, how, response, raised_by, disk0, resumed>>
  /\ UNCHANGED libVars

\* the final summary of execute (487-509)
ExecuteReturn ==
  /\ pc = "summary"
  /\ summary' = [status |-> "completed",
                 runs_completed |-> runs_completed,
                 runs_failed |-> runs_failed,
                 total_runs |-> Some(Len(runs_to_execute))]
  /\ pc' = "executed"
  /\ UNCHANGED <<disk, args, exit_status, queueVars, runs_to_execute, idx,
                 runs_completed, runs_failed, now, db, interrupts, histVars>>
  /\ UNCHANGED libVars

\* --------------------------------------------------- main after execute
\* queue.save_state(name): the file is written, or open() raises
SaveState(name, ok) ==
  disk' = IF ok THEN [disk EXCEPT ![name] = Save(error_handling, runs)]
          ELSE disk

\* execute has returned: --save-state and the exit code (170-181)
MainFinish ==
  /\ pc = "executed"
  /\ \E ok \in BOOLEAN :
       IF args.save_state # None
       THEN /\ SaveState(args.save_state[1], ok)
            /\ IF ok
               THEN /\ Exit(ExitCodeFor(summary.runs_failed), "returned")
                    /\ raised_by' = raised_by
               ELSE /\ pc' = "exception"
                    /\ raised_by' = "save_state"
                    /\ UNCHANGED <<exit_status, how>>
       ELSE /\ ok
            /\ disk' = disk
            /\ raised_by' = raised_by
            /\ Exit(ExitCodeFor(summary.runs_failed), "returned")
  /\ UNCHANGED <<args, queueVars, execVars, now, db, interrupts, pre, events,
                 response, disk0, interrupted_run, resumed>>
  /\ UNCHANGED libVars

\* except KeyboardInterrupt (183-192); an exception of save_state inside the
\* handler ends the process with code 1
MainInterrupted ==
  /\ pc = "interrupt"
  /\ \E ok \in BOOLEAN :
       /\ SaveState("interrupted_state.json", ok)
       /\ IF ok THEN Exit(130, "interrupted")
          ELSE Exit(1, "interrupted_save_error")
  /\ UNCHANGED <<args, queueVars, execVars, now, db, interrupts, pre, events,
                 response, raised_by, disk0, interrupted_run, resumed>>
  /\ UNCHANGED libVars

\* except Exception (194-204)
MainException ==
  /\ pc = "exception"
  /\ \E ok \in BOOLEAN :
       /\ SaveState("error_state.json", ok)
       /\ IF ok THEN Exit(1, "exception")
          ELSE Exit(1, "exception_save_error")
  /\ UNCHANGED <<args, queueVars, execVars, now, db, interrupts, pre, events,
                 response, raised_by, disk0, interrupted_run, resumed>>
  /\ UNCHANGED libVars

\* the user follows the hint printed at line 190:
\*   python run_simulation_queue.py <queue_name>_interrupted_state.json --resume
ResumeInterrupted ==
  /\ pc = "exit"
  /\ exit_status = Some(130)
  /\ args' = [queue_file |-> "interrupted_state.json", dry_run |-> FALSE,
              yes |-> FALSE, resume |-> TRUE, save_state |-> None]
  /\ pc' = "main"
  /\ exit_status' = None
  /\ runs' = <<>>
  /\ error_handling' = "continue"
  /\ runs_to_execute' = <<>>
  /\ idx' = 1
  /\ runs_completed' = 0
  /\ runs_failed' = 0
  /\ summary' = NoSummary
  /\ pre' = <<>>
  /\ events' = <<>>
  /\ how' = "running"
  /\ response' = "none"
  /\ raised_by' = "none"
  /\ disk0' = disk
  /\ resumed' = TRUE
  /\ UNCHANGED <<disk, now, db, interrupts, interrupted_run>>
  /\ UNCHANGED libVars

\* finalize_results.py <output folder> of run i: finalize_simulation sets the
\* status of every registered simulation's metadata.json (finalize_results.py
\* 21-58, simulation_db.py 186-212)
FinalizeResults ==
  /\ pc = "exit"
  /\ \E i \in 1..NumRuns :
       /\ db[i] = "pending"
       /\ db' = [db EXCEPT ![i] = "completed"]
  /\ UNCHANGED <<disk, args, pc, exit_status, queueVars, execVars, now,
                 interrupts, histVars>>
  /\ UNCHANGED libVars

Next ==
  \/ MainLoad
  \/ MainDryRun
  \/ MainConfirm
  \/ ExecuteBegin
  \/ ExecuteSetupRaises
  \/ StartRun
  \/ ScriptReturns
  \/ BatchReturns
  \/ KeyboardInterrupt
  \/ ExecuteReturn
  \/ MainFinish
  \/ MainInterrupted
  \/ MainException
  \/ ResumeInterrupted

Spec == Init /\ [][Next]_vars

\* the runner together with a user who runs finalize_results.py
NextDB ==
  \/ Next
  \/ FinalizeResults

SpecDB == Init /\ [][NextDB]_vars

\* ------------------------------------------------------------ properties
Starts == SelectSeq(events, LAMBDA e : e.ev = "start")
HasEvent(e, i, r) == \E k \in 1..Len(events) : events[k] = Event(e, i, r)
Finished(st) == st \in {"completed", "failed"}
ExecuteReturned == summary.status # "none"

\* C1: execute starts the selected runs one at a time in queue order: the
\* k-th run started is the k-th run of the selection, the selection follows
\* the list order, every run started before the latest one has status
\* completed or failed, and at most one started run has status running.
C1_Sequential ==
  /\ Len(Starts) <= Len(runs_to_execute)
  /\ \A k \in 1..Len(Starts) : Starts[k].run = runs_to_execute[k]
  /\ \A k \in 1..(Len(runs_to_execute) - 1) :
       runs_to_execute[k] < runs_to_execute[k + 1]
  /\ \A k \in 1..(Len(Starts) - 1) : Finished(runs[Starts[k].run].status)
  /\ Cardinality({k \in 1..Len(Starts) :
                    runs[Starts[k].run].status = "running"}) <= 1

\* the second run of the selection runs its batch file after the first failed
C1_Witness ==
  /\ pc = "batch"
  /\ Len(Starts) = 2
  /\ runs[Starts[1].run].status = "failed"
  /\ runs[Starts[2].run].status = "running"

\* C2: under error_handling "stop" the first failed run is the last event of
\* the execute call, every run after it in the queue is as it was before the
\* call, and execute returns runs_failed = 1.
C2_StopHalts ==
  (error_handling = "stop" /\ Len(pre) = Len(runs)) =>
    \A k \in 1..Len(events) :
      (events[k].ev = "end" /\ events[k].result = "failed") =>
        /\ k = Len(events)
        /\ pc \notin {"loop", "script", "batch"}
        /\ \A j \in (events[k].run + 1)..Len(runs) : runs[j] = pre[j]
        /\ ExecuteReturned =>
             summary.runs_failed = 1 /\ summary.status = "completed"

\* the first run failed under "stop" while an enabled run was still to come
C2_Witness ==
  /\ error_handling = "stop"
  /\ pc = "executed"
  /\ summary.runs_failed = 1
  /\ HasEvent("end", 1, "failed")
  /\ Len(runs_to_execute) >= 2
  /\ runs[2].enabled
  /\ runs[2] = pre[2]

\* C3: under error_handling "continue" without resume, when execute returns
\* the runs it started are exactly the enabled runs, each once, in queue order.
C3_ContinueRunsAll ==
  (error_handling = "continue" /\ ~args.resume /\ ExecuteReturned) =>
    /\ [k \in 1..Len(Starts) |-> Starts[k].run] = EnabledRuns(pre)
    /\ \A i \in 1..Len(pre) :
         pre[i].enabled =>
           Cardinality({k \in 1..Len(events) :
                          events[k].ev = "end" /\ events[k].run = i}) = 1

\* a run that was completed before the call failed, the next run, failed
\* before the call, was still started and completed
C3_Witness ==
  /\ error_handling = "continue"
  /\ ~args.resume
  /\ pc = "executed"
  /\ pre[1].status = "completed"
  /\ pre[2].status = "failed"
  /\ HasEvent("end", 1, "failed")
  /\ HasEvent("end", 2, "completed")

Range(q) == {q[k] : k \in 1..Len(q)}
InExecute == pc \in {"loop", "script", "batch", "summary", "executed"}

\* C4: in resume mode the runs execute selects are exactly the enabled runs
\* whose status is not completed.
C4_ResumeSkipsCompletedOnly ==
  (args.resume /\ InExecute) =>
    Range(runs_to_execute) =
      {i \in 1..Len(pre) : pre[i].enabled /\ pre[i].status # "completed"}

\* C5: the interrupted state file holds the queue as it was at the interrupt,
\* and once the resumed runner has returned from execute under "continue",
\* the run in progress at the interrupt and every enabled run after it were
\* started and every enabled run is completed or failed.
C5_ResumeAfterInterrupt ==
  /\ how = "interrupted" =>
       /\ disk["interrupted_state.json"] = Save(error_handling, runs)
       /\ \A i \in 1..Len(runs) :
            (\E r \in Statuses : HasEvent("end", i, r)) =>
              Finished(runs[i].status)
  /\ (resumed /\ pc = "executed" /\ error_handling = "continue") =>
       /\ \A i \in interrupted_run..Len(runs) :
            runs[i].enabled => HasEvent("start", i, "")
       /\ \A i \in 1..Len(runs) :
            runs[i].enabled => Finished(runs[i].status)

\* C6: a disabled run has no event in an execute call and keeps every field,
\* and the summary counts enabled runs only.
C6_DisabledUntouched ==
  (Len(pre) > 0 /\ Len(pre) = Len(runs)) =>
    /\ \A i \in 1..Len(pre) :
         ~pre[i].enabled =>
           /\ runs[i] = pre[i]
           /\ \A k \in 1..Len(events) : events[k].run # i
    /\ summary.status = "completed" =>
         /\ summary.total_runs[1] <=
              Cardinality({i \in 1..Len(pre) : pre[i].enabled})
         /\ summary.runs_completed =
              Cardinality({i \in 1..Len(pre) :
                 pre[i].enabled /\ HasEvent("end", i, "completed")})
         /\ summary.runs_failed =
              Cardinality({i \in 1..Len(pre) :
                 pre[i].enabled /\ HasEvent("end", i, "failed")})
         /\ summary.runs_completed + summary.runs_failed <= summary.total_runs[1]

\* a disabled run that carries the fields of an earlier completed execution
\* sits before an enabled run that execute has run to completion
C6_Witness ==
  /\ pc = "executed"
  /\ Len(pre) >= 2
  /\ ~pre[1].enabled
  /\ pre[1].status = "completed"
  /\ runs[1] = pre[1]
  /\ HasEvent("end", 2, "completed")
  /\ summary.total_runs = Some(1)

\* C7: a run ends an attempt completed exactly when its script exited with 0
\* and printed an output folder, a batch file was found and the batch file
\* exited with 0; otherwise it ends failed; the status field is the outcome
\* of the attempt; the batch file is started only after such a script.
C7_CompletedIff ==
  \A k \in 1..Len(events) :
    LET i == events[k].run IN
    /\ events[k].ev = "end" =>
         /\ events[k].result \in {"completed", "failed"}
         /\ events[k].result = "completed" <=>
              /\ HasEvent("script", i, "ok")
              /\ HasEvent("find", i, "found")
              /\ HasEvent("batch", i, "zero")
         /\ Len(runs) = Len(pre) => runs[i].status = events[k].result
    /\ events[k].ev = "batch_start" =>
         /\ HasEvent("script", i, "ok")
         /\ HasEvent("find", i, "found")

\* one run completed, and one failed because its batch file exited non-zero
C7_Witness ==
  /\ pc = "executed"
  /\ HasEvent("end", 1, "completed")
  /\ HasEvent("batch", 2, "nonzero")
  /\ HasEvent("end", 2, "failed")
  /\ runs[1].status = "completed"
  /\ runs[2].status = "failed"

QueueLoads == Loadable(disk0[args.queue_file])
\* --dry-run, or the confirmation prompt was answered with something that is
\* not y or yes
Declined ==
  \/ args.dry_run
  \/ /\ ~args.yes
     /\ response = "other"
CurrentState == Save(error_handling, runs)

\* C9 as stated: exit 0 exactly when execute returned with runs_failed = 0;
\* exit 1 when a run failed, the queue file is missing or does not load, or
\* execute raised (with the state saved to the error state file); exit 130
\* on KeyboardInterrupt; with --save-state and a normal return the state is
\* in the file at exit.
C9_ExitCode ==
  pc = "exit" =>
    /\ exit_status = Some(0) <=> (ExecuteReturned /\ summary.runs_failed = 0)
    /\ (ExecuteReturned /\ summary.runs_failed > 0) => exit_status = Some(1)
    /\ ~QueueLoads => exit_status = Some(1)
    /\ raised_by = "execute" =>
         /\ exit_status = Some(1)
         /\ disk["error_state.json"] = CurrentState
    /\ how \in {"interrupted", "interrupted_save_error"} =>
         exit_status = Some(130)
    /\ (args.save_state # None /\ ExecuteReturned) =>
         disk[args.save_state[1]] = CurrentState

\* C9 amended: exit 0 exactly when execute returned with runs_failed = 0 and
\* no save_state call raised, or when the queue loaded and the runner ended
\* before execute (--dry-run, confirmation declined); exit 1 when a run
\* failed, the queue file is missing or does not load, or execute or
\* save_state raised (the state is in the error state file if that write
\* worked); exit 130 on KeyboardInterrupt once the interrupted state file is
\* written, 1 if that write raises; with --save-state and a normal return the
\* state is in the file at exit unless the write raised.
C9_ExitCodeAmended ==
  pc = "exit" =>
    /\ exit_status = Some(0) <=>
         \/ ExecuteReturned /\ summary.runs_failed = 0 /\ raised_by = "none"
         \/ QueueLoads /\ Declined
    /\ (ExecuteReturned /\ summary.runs_failed > 0) => exit_status = Some(1)
    /\ ~QueueLoads => exit_status = Some(1)
    /\ raised_by # "none" =>
         /\ exit_status = Some(1)
         /\ how = "exception" => disk["error_state.json"] = CurrentState
    /\ how = "interrupted" =>
         /\ exit_status = Some(130)
         /\ disk["interrupted_state.json"] = CurrentState
    /\ how = "interrupted_save_error" => exit_status = Some(1)
    /\ (args.save_state # None /\ ExecuteReturned /\ raised_by = "none") =>
         disk[args.save_state[1]] = CurrentState

\* execute returned with a failed run, the state was saved on request and the
\* runner exited with 1
C9_Witness ==
  /\ pc = "exit"
  /\ exit_status = Some(1)
  /\ ExecuteReturned
  /\ summary.runs_failed > 0
  /\ summary.runs_completed > 0
  /\ args.save_state = Some("saved_state.json")
  /\ disk["saved_state.json"] = CurrentState

\* C10: with --dry-run or a declined confirmation execute is never called, no
\* run is started, no file is written and the queue is as loaded.
C10_NoExecution ==
  (QueueLoads /\ Declined) =>
    /\ pc \in {"main", "loaded", "exit"}
    /\ pre = <<>>
    /\ events = <<>>
    /\ summary = NoSummary
    /\ disk = disk0
    /\ pc # "main" => runs = disk0[args.queue_file].runs

\* the prompt was not answered y or yes for a queue that has an enabled
\* pending run
C10_Witness ==
  /\ pc = "exit"
  /\ ~args.dry_run
  /\ response = "other"
  /\ exit_status = Some(0)
  /\ \E i \in 1..Len(runs) : runs[i].enabled /\ runs[i].status = "pending"

\* ======================================================= save and load
\* ---------------------------------------------------------------- bounds
MaxQueueLen == 2     \* number of runs of a queue that is saved and loaded

\* ------------------------------------------------------- Python values
\* A Python value is a tagged tuple, so that values of different types are
\* different values: None, bool, int, float (whole part and first decimal),
\* str, list and dict with str keys.
PyNone == <<"None">>
PyBool(b) == <<"bool", b>>
PyInt(n) == <<"int", n>>
PyFloat(w, f) == <<"float", w, f>>
PyStr(s) == <<"str", s>>
PyList(seq) == <<"list", seq>>
PyDict(d) == <<"dict", d>>

\* ------------------------------------------------------ JSON documents
\* json.dump: None -> null, True/False -> true/false, an int -> a number
\* without a fraction, a float -> a number with a fraction, str -> string,
\* list -> array, dict -> object
RECURSIVE json_dump(_)
json_dump(v) ==
  CASE v[1] = "None" -> <<"null">>
    [] v[1] = "bool" -> IF v[2] THEN <<"true">> ELSE <<"false">>
    [] v[1] = "int" -> <<"number", <<v[2]>>>>
    [] v[1] = "float" -> <<"number", <<v[2], v[3]>>>>
    [] v[1] = "str" -> <<"string", v[2]>>
    [] v[1] = "list" -> <<"array", [i \in DOMAIN v[2] |-> json_dump(v[2][i])]>>
    [] v[1] = "dict" -> <<"object", [k \in DOMAIN v[2] |-> json_dump(v[2][k])]>>

\* json.load: a number without a fraction -> int, with a fraction -> float
RECURSIVE json_load(_)
json_load(j) ==
  CASE j[1] = "null" -> PyNone
    [] j[1] = "true" -> PyBool(TRUE)
    [] j[1] = "false" -> PyBool(FALSE)
    [] j[1] = "number" -> IF Len(j[2]) = 1 THEN PyInt(j[2][1])
                          ELSE PyFloat(j[2][1], j[2][2])
    [] j[1] = "string" -> PyStr(j[2])
    [] j[1] = "array" -> PyList([i \in DOMAIN j[2] |-> json_load(j[2][i])])
    [] j[1] = "object" -> PyDict([k \in DOMAIN j[2] |-> json_load(j[2][k])])

\* dict.get(key, default)
Get(d, key, default) == IF key \in DOMAIN d THEN d[key] ELSE default

\* datetime.isoformat() of the time t
isoformat(t) == <<"2025-01-01T00:00:0", t>>

\* ------------------------------------------------- SimulationRun objects
ConfigFields == {"script", "description", "args", "sweep_overrides", "enabled"}
StateFields == {"status", "output_folder", "bat_file", "start_time",
                "end_time", "duration_seconds", "error_message", "exit_code"}

\* the defaults of the dataclass fields (script and description have none)
FieldDefaults ==
  [args |-> PyList(<<>>), sweep_overrides |-> PyNone, enabled |-> PyBool(TRUE),
   status |-> PyStr("pending"), output_folder |-> PyNone, bat_file |-> PyNone,
   start_time |-> PyNone, end_time |-> PyNone, duration_seconds |-> PyNone,
   error_message |-> PyNone, exit_code |-> PyNone]

\* A SimulationRun object as add_run and execute leave it: its configuration
\* and, by status, the fields that _execute_run and its helpers assign.
SimulationRun(script, run_args, overrides, en, st) ==
  [script |-> PyStr(script),
   description |-> PyStr("sweep"),
   args |-> PyList(run_args),
   sweep_overrides |-> overrides,
   enabled |-> PyBool(en),
   status |-> PyStr(st),
   output_folder |-> IF st = "completed" THEN PyStr("tmp/out") ELSE PyNone,
   bat_file |-> IF st = "completed" THEN PyStr("tmp/out/simulation.bat")
                ELSE PyNone,
   start_time |-> IF st = "pending" THEN PyNone ELSE PyStr(isoformat(0)),
   end_time |-> IF st \in {"completed", "failed"} THEN PyStr(isoformat(1))
                ELSE PyNone,
   duration_seconds |-> IF st \in {"completed", "failed"} THEN PyFloat(1, 5)
                        ELSE PyNone,
   error_message |-> IF st = "failed"
                     THEN PyStr("Batch file failed with exit code 1")
                     ELSE PyNone,
   exit_code |-> IF st = "completed" THEN PyInt(0)
                 ELSE IF st = "failed" THEN PyInt(1) ELSE PyNone]

\* the runs of create_simulation_queue.py, in every status
SampleRuns ==
  {SimulationRun("finger_cap_q3d_sim.py", <<PyStr("--no-gui")>>,
                 PyDict([finger_length |-> PyList(<<PyInt(5), PyInt(10)>>)]),
                 TRUE, st) : st \in Statuses}
  \cup {SimulationRun("spike_res_q3d_sim.py", <<>>, PyNone, en, "pending") :
          en \in BOOLEAN}

\* SimulationRun.to_dict that keeps the configuration only
to_dict_config_only(run) == PyDict([f \in ConfigFields |-> run[f]])

\* SimulationRun.to_dict: asdict(self)
to_dict(run) == PyDict([f \in DOMAIN run |-> run[f]])

\* SimulationRun.from_dict: cls(**data); a field that data lacks takes its
\* default
from_dict(data) ==
  [f \in ConfigFields \cup StateFields |->
     IF f \in DOMAIN data[2] THEN data[2][f] ELSE FieldDefaults[f]]

\* ------------------------------------------------ SimulationQueue objects
\* SimulationQueue.__init__ at the time t
NewQueue(name, handling, t) ==
  [queue_name |-> name, error_handling |-> handling,
   runs |-> <<>>, created_at |-> PyStr(isoformat(t)), log_file |-> PyNone]

\* SimulationQueue.save: the JSON document written to the file
save(q) ==
  json_dump(PyDict(
    [queue_name |-> q.queue_name,
     created_at |-> q.created_at,
     error_handling |-> q.error_handling,
     runs |-> PyList([i \in DOMAIN q.runs |-> to_dict(q.runs[i])])]))

\* SimulationQueue.load of the document, at the time t
load(doc, t) ==
  LET data == json_load(doc)[2]
      q == NewQueue(data["queue_name"],
                    Get(data, "error_handling", PyStr("continue")), t)
  IN  [q EXCEPT
         !.created_at = Get(data, "created_at", PyStr(isoformat(t))),
         !.runs = [i \in DOMAIN data["runs"][2] |->
                     from_dict(data["runs"][2][i])]]

Paths == {"queue.json", "state.json"}

\* the queues a client of the library holds
Queues ==
  {[NewQueue(PyStr(n), PyStr(eh), t) EXCEPT !.runs = rs] :
     n \in {"finger_cap_sweep", "multi_design_study"},
     eh \in {"continue", "stop"}, t \in {0, 1},
     rs \in UNION {[1..k -> SampleRuns] : k \in 0..MaxQueueLen}}

RunnerIdle ==
  /\ disk = [f \in FileNames |-> Absent]
  /\ args = [queue_file |-> "queue.json", dry_run |-> TRUE, yes |-> FALSE,
             resume |-> FALSE, save_state |-> None]
  /\ pc = "library"
  /\ exit_status = None
  /\ runs = <<>>
  /\ error_handling = "continue"
  /\ runs_to_execute = <<>>
  /\ idx = 1
  /\ runs_completed = 0
  /\ runs_failed = 0
  /\ summary = NoSummary
  /\ now = 2
  /\ db = [i \in 1..NumRuns |-> "none"]
  /\ interrupts = 0
  /\ pre = <<>>
  /\ events = <<>>
  /\ how = "running"
  /\ response = "none"
  /\ raised_by = "none"
  /\ disk0 = disk
  /\ interrupted_run = 0
  /\ resumed = FALSE

DatabaseUnused ==
  /\ simulations = <<>>
  /\ export_parameters = <<>>
  /\ output_folder = None
  /\ varied_params = None
  /\ sweep_folder_name = None
  /\ db_folders = None

dbVars == <<simulations, export_parameters, output_folder, varied_params,
            sweep_folder_name, db_folders>>

\* a client holds a queue, in any execution state
InitQueue ==
  /\ RunnerIdle
  /\ DatabaseUnused
  /\ queue \in Queues
  /\ loaded = None
  /\ written = <<>>
  /\ files = <<>>

\* queue.add_run(...)
QueueAddRun ==
  /\ Len(queue.runs) < MaxQueueLen
  /\ \E r \in {s \in SampleRuns : s.status = PyStr("pending")} :
       queue' = [queue EXCEPT !.runs = Append(@, r)]
  /\ UNCHANGED <<loaded, written, files, runnerVars, dbVars>>

\* queue.save(filepath)
QueueSave ==
  /\ \E p \in Paths :
       /\ files' = (p :> save(queue)) @@ files
       /\ written' = (p :> queue) @@ written
  /\ UNCHANGED <<queue, loaded, runnerVars, dbVars>>

\* queue.save_state(filepath): self.save(filepath)
QueueSaveState ==
  /\ \E p \in Paths :
       /\ files' = (p :> save(queue)) @@ files
       /\ written' = (p :> queue) @@ written
  /\ UNCHANGED <<queue, loaded, runnerVars, dbVars>>

\* SimulationQueue.load(filepath) of a file that save wrote; the value is
\* kept with its path and with the queue that wrote the file
QueueLoad ==
  /\ \E p \in DOMAIN files :
       loaded' = Some([path |-> p, queue |-> load(files[p], now),
                       saved |-> written[p]])
  /\ UNCHANGED <<queue, written, files, runnerVars, dbVars>>

NextQueue ==
  \/ QueueAddRun
  \/ QueueSave
  \/ QueueSaveState
  \/ QueueLoad

SpecQueue == InitQueue /\ [][NextQueue]_vars

\* C11: the queue that load returns for a file written by save or save_state
\* has the queue_name, created_at and error_handling of the queue that wrote
\* the file and the same runs in the same order, every field of every run
\* equal.
C11_RoundTrip ==
  loaded # None =>
    LET l == loaded[1].queue
        q == loaded[1].saved
    IN  /\ l.queue_name = q.queue_name
        /\ l.created_at = q.created_at
        /\ l.error_handling = q.error_handling
        /\ Len(l.runs) = Len(q.runs)
        /\ \A i \in 1..Len(q.runs) :
             \A f \in ConfigFields \cup StateFields :
               l.runs[i][f] = q.runs[i][f]

\* a queue under "stop" whose first run completed and whose second run
\* failed was saved and loaded
C11_Witness ==
  /\ loaded # None
  /\ loaded[1].saved.error_handling = PyStr("stop")
  /\ loaded[1].saved.created_at # PyStr(isoformat(now))
  /\ Len(loaded[1].saved.runs) = 2
  /\ loaded[1].saved.runs[1].status = PyStr("completed")
  /\ loaded[1].saved.runs[1].output_folder # PyNone
  /\ loaded[1].saved.runs[2].status = PyStr("failed")
  /\ loaded[1].saved.runs[2].error_message # PyNone
  /\ loaded[1].saved.runs[2].exit_code = PyInt(1)
  /\ loaded[1].queue.runs[2].status = PyStr("failed")

\* =================================================== simulation database
\* ---------------------------------------------------------------- bounds
MaxSims == 3         \* number of simulations passed to register_simulations

\* A name is the sequence of its pieces, blanks and slashes being pieces of
\* their own; a path is the sequence of the names of its components.
\* str.replace(' ', '_').replace('/', '_')
Sanitize(name) ==
  [i \in DOMAIN name |-> IF name[i] \in {" ", "/"} THEN "_" ELSE name[i]]

Dir == <<"dir">>

\* Path.mkdir(exist_ok=True)
Mkdir(fs, path) == (path :> Dir) @@ fs

\* open(path, 'w') and json.dump(value, f)
WriteJson(fs, path, value) == (path :> json_dump(value)) @@ fs

base_path == <<<<"simulations_database">>>>
design_name == <<"finger_cap">>
timestamp_str == "20250101_000002"

\* sim.get_parameters(), {} for an object without that method
GetParameters(sim) ==
  IF sim.has_get_parameters
  THEN sim.params @@ [name |-> PyStr(sim.name)]
  ELSE [k \in {} |-> PyNone]

\* str(v)
Digits == <<"0", "1", "2", "3", "4", "5", "6", "7", "8", "9">>
Str(v) ==
  CASE v[1] = "int" -> Digits[v[2] + 1]
    [] v[1] = "bool" -> IF v[2] THEN "True" ELSE "False"
    [] v[1] = "str" -> v[2]

DetectExcluded == {"name", "extra_json_data", "box", "face_stack"}

\* the values of key in the simulations that have it (a value that json.dumps
\* rejects is replaced by its str; the model has no such value)
ValuesOf(all_sim_params, key) ==
  LET having == SelectSeq(all_sim_params, LAMBDA params : key \in DOMAIN params)
  IN  [i \in DOMAIN having |-> having[i][key]]

\* _detect_varied_parameters: key -> the unique values (the order of the
\* list  sorted(set(values), key=str)  is left out)
detect_varied_parameters(sims) ==
  IF Len(sims) <= 1 THEN [k \in {} |-> {}]
  ELSE LET all_sim_params == [i \in DOMAIN sims |-> GetParameters(sims[i])]
           first_params == all_sim_params[1]
           Values(key) == ValuesOf(all_sim_params, key)
           varied == {key \in DOMAIN first_params \ DetectExcluded :
                        Cardinality({Str(Values(key)[i]) :
                                       i \in DOMAIN Values(key)}) > 1}
       IN  [key \in varied |->
              {Values(key)[i] : i \in DOMAIN Values(key)}]

\* sorted(keys) for the parameter names of the model
KeyOrder == <<"finger_gap", "finger_length", "finger_width", "name",
              "use_ports">>
Sorted(keys) == SelectSeq(KeyOrder, LAMBDA k : k \in keys)

\* '_'.join(names)
RECURSIVE Join(_)
Join(names) ==
  IF names = <<>> THEN <<>>
  ELSE IF Len(names) = 1 THEN <<names[1]>>
  ELSE <<names[1], "_">> \o Join(Tail(names))

\* the tool of the export parameters
Tool(export) ==
  LET tool == Get(export, "ansys_tool", "sim")
  IN  IF tool = "q3d" /\ Get(export, "solve_acrl", FALSE)
      THEN "q3d_acrl" ELSE tool

NameExcluded == {"name", "box", "face_stack", "use_ports", "use_internal_ports"}

\* _generate_sweep_folder_name
generate_sweep_folder_name(varied, export) ==
  LET meaningful == DOMAIN varied \ NameExcluded
      first_two == SubSeq(Sorted(meaningful), 1,
                          IF Len(Sorted(meaningful)) < 2
                          THEN Len(Sorted(meaningful)) ELSE 2)
  IN  Sanitize(
        IF meaningful # {}
        THEN <<timestamp_str, "_">> \o Join(first_two)
               \o <<"_", "sweep", "_", Tool(export)>>
        ELSE <<timestamp_str, "_", "single", "_", Tool(export)>>)

\* _generate_sim_folder_name that keeps the name as it is
SimFolderNameRaw(sim) == sim.name

\* _generate_sim_folder_name
generate_sim_folder_name(sim) == Sanitize(sim.name)

\* _generate_sweep_metadata: the entries of sweep_metadata.json that name the
\* sweep (the parameter and export dictionaries are left out)
generate_sweep_metadata(sims, export) ==
  PyDict([design |-> PyStr(design_name),
          ansys_tool |-> PyStr(Get(export, "ansys_tool", "unknown")),
          num_simulations |-> PyInt(Len(sims)),
          simulations |-> PyList([i \in DOMAIN sims |->
                            PyDict([name |-> PyStr(sims[i].name),
                                    status |-> PyStr("pending")])])])

\* _generate_metadata and the sweep reference added by register_simulations
\* (the parameter, export and files dictionaries are left out)
generate_metadata(sim, export, sweep_name) ==
  PyDict([design |-> PyStr(design_name),
          simulation_name |-> PyStr(sim.name),
          ansys_tool |-> PyStr(Get(export, "ansys_tool", "unknown")),
          status |-> PyStr("pending"),
          sweep_folder |-> PyStr(sweep_name)])

\* one pass of the loop  for sim in simulations  of register_simulations
RegisterOne(st, sim, export, sweep_folder, sweep_name) ==
  LET sim_folder == Append(sweep_folder, generate_sim_folder_name(sim))
      fs1 == Mkdir(st.fs, sim_folder)
      fs2 == Mkdir(fs1, Append(sim_folder, <<"results">>))
      fs3 == WriteJson(fs2, Append(sim_folder, <<"metadata.json">>),
                       generate_metadata(sim, export, sweep_name))
  IN  [fs |-> fs3,
       db_folders |-> (sim.name :> PyStr(sim_folder)) @@ st.db_folders]

RECURSIVE RegisterLoop(_, _, _, _, _, _)
RegisterLoop(st, sims, i, export, sweep_folder, sweep_name) ==
  IF i > Len(sims) THEN st
  ELSE RegisterLoop(RegisterOne(st, sims[i], export, sweep_folder, sweep_name),
                    sims, i + 1, export, sweep_folder, sweep_name)

\* if output_folder:
Truthy(folder) == folder # None /\ folder[1] # <<>>

\* Path(output_folder).parent / f'{Path(output_folder).name}_db_mapping.json'
MappingPath(folder) ==
  IF folder = <<>> THEN << <<"_db_mapping.json">> >>
  ELSE Append(SubSeq(folder, 1, Len(folder) - 1),
              folder[Len(folder)] \o <<"_db_mapping.json">>)

\* register_simulations: the files after the call and the value returned
register_simulations(fs, sims, export, folder) ==
  LET design_folder == Append(base_path, design_name)
      varied == detect_varied_parameters(sims)
      sweep_name == generate_sweep_folder_name(varied, export)
      sweep_folder == Append(design_folder, sweep_name)
      fs1 == Mkdir(Mkdir(fs, design_folder), sweep_folder)
      fs2 == WriteJson(fs1, Append(sweep_folder, <<"sweep_metadata.json">>),
                       generate_sweep_metadata(sims, export))
      st == RegisterLoop([fs |-> fs2, db_folders |-> [n \in {} |-> PyNone]],
                         sims, 1, export, sweep_folder, sweep_name)
      fs3 == IF Truthy(folder)
             THEN WriteJson(st.fs, MappingPath(folder[1]), PyDict(st.db_folders))
             ELSE st.fs
  IN  [fs |-> fs3, db_folders |-> st.db_folders, varied |-> varied,
       sweep_name |-> sweep_name]

QueueUnused ==
  /\ queue = None
  /\ loaded = None
  /\ written = <<>>

\* SimulationDB.__init__: base_path and base_path/tools exist
NewDatabase == Mkdir(Mkdir(<<>>, base_path), Append(base_path, <<"tools">>))

ExportParameters ==
  {[path |-> "tmp/out", ansys_tool |-> "q3d", solve_acrl |-> acrl] :
     acrl \in BOOLEAN}
  \cup {[path |-> "tmp/out", ansys_tool |-> "hfss", solve_acrl |-> TRUE],
        [path |-> "tmp/out", solve_acrl |-> TRUE]}

\* ------------------------------------------------- register_simulations
\* names of simulations: a sweep gives "<name>_<value>"; a value may repeat,
\* and a name may hold blanks or slashes
SimNames == {<<"cap", "_", "5">>, <<"cap", "_", "10">>, <<"cap", " ", "5">>,
             <<"cap", "/", "5">>}

NamedSims ==
  {[name |-> n, has_get_parameters |-> TRUE,
    params |-> [finger_length |-> PyInt(v)]] : n \in SimNames, v \in {1, 2}}

OutputFolders == {None, Some(<<>>), Some(<< <<"tmp">>, <<"finger_cap_output">> >>)}

InitRegister ==
  /\ RunnerIdle
  /\ QueueUnused
  /\ files = NewDatabase
  /\ simulations \in UNION {[1..n -> NamedSims] : n \in 0..MaxSims}
  /\ export_parameters \in ExportParameters
  /\ output_folder \in OutputFolders
  /\ varied_params = None
  /\ sweep_folder_name = None
  /\ db_folders = None

\* db.register_simulations(simulations, design_name, sim_parameters,
\*                         export_parameters, output_folder)
RegisterSimulations ==
  /\ db_folders = None
  /\ LET r == register_simulations(files, simulations, export_parameters,
                                   output_folder)
     IN  /\ files' = r.fs
         /\ db_folders' = Some(r.db_folders)
         /\ varied_params' = Some(r.varied)
         /\ sweep_folder_name' = Some(r.sweep_name)
  /\ UNCHANGED <<simulations, export_parameters, output_folder, queue, loaded,
                 written, runnerVars>>

NextRegister ==
  \/ RegisterSimulations

SpecRegister == InitRegister /\ [][NextRegister]_vars

\* the folder that register_simulations created for the sweep
SweepFolder == <<base_path[1], design_name, sweep_folder_name[1]>>
IsDir(path) == path \in DOMAIN files /\ files[path] = Dir
HoldsPendingMetadata(folder) ==
  /\ Append(folder, <<"metadata.json">>) \in DOMAIN files
  /\ json_load(files[Append(folder, <<"metadata.json">>)])[2]["status"]
       = PyStr("pending")
\* the folders inside the sweep folder
SimFolders == {p \in DOMAIN files : Len(p) = 4 /\ SubSeq(p, 1, 3) = SweepFolder
                                     /\ files[p] = Dir}
\* the sweep folders of the design
SweepFolders == {p \in DOMAIN files : Len(p) = 3 /\ files[p] = Dir}
Registered == db_folders # None

\* the simulations registered under the folder
SimsOf(folder) ==
  {i \in 1..Len(simulations) :
     Append(SweepFolder, generate_sim_folder_name(simulations[i])) = folder}

\* the document of the mapping file, if it was written
MappingWritten ==
  /\ output_folder # None
  /\ MappingPath(output_folder[1]) \in DOMAIN files
  /\ json_load(files[MappingPath(output_folder[1])]) = PyDict(db_folders[1])

\* C12 as stated: register_simulations creates one sweep folder and in it one
\* folder per simulation, each with results/ and a metadata.json of status
\* 'pending'; the mapping returned has one entry per simulation of the list,
\* from its name to its own folder, and the same mapping is written to
\* <output_folder>_db_mapping.json whenever output_folder is given.
C12_Register ==
  Registered =>
    /\ SweepFolders = {SweepFolder}
    /\ Cardinality(SimFolders) = Len(simulations)
    /\ \A f \in SimFolders : IsDir(Append(f, <<"results">>))
                              /\ HoldsPendingMetadata(f)
    /\ Cardinality(DOMAIN db_folders[1]) = Len(simulations)
    /\ \A i \in 1..Len(simulations) :
         /\ simulations[i].name \in DOMAIN db_folders[1]
         /\ db_folders[1][simulations[i].name][2] \in SimFolders
         /\ SimsOf(db_folders[1][simulations[i].name][2]) = {i}
    /\ output_folder # None => MappingWritten

\* C12, amended: register_simulations creates one sweep folder and in it one
\* folder per distinct sanitised simulation name, each with results/ and a
\* metadata.json of status 'pending' that names the last simulation
\* registered under the folder; the mapping returned has one entry per
\* distinct simulation name, from the name to the folder of the sanitised
\* name; the same mapping is written to <output_folder>_db_mapping.json if
\* output_folder is given and not empty, and no file is written otherwise.
C12_RegisterAmended ==
  Registered =>
    /\ SweepFolders = {SweepFolder}
    /\ SimFolders =
         {Append(SweepFolder, Sanitize(simulations[i].name)) :
            i \in 1..Len(simulations)}
    /\ \A f \in SimFolders :
         /\ IsDir(Append(f, <<"results">>))
         /\ HoldsPendingMetadata(f)
         /\ \E i \in SimsOf(f) :
              /\ \A j \in SimsOf(f) : j <= i
              /\ json_load(files[Append(f, <<"metadata.json">>)])[2]
                   ["simulation_name"] = PyStr(simulations[i].name)
    /\ DOMAIN db_folders[1] =
         {simulations[i].name : i \in 1..Len(simulations)}
    /\ \A i \in 1..Len(simulations) :
         db_folders[1][simulations[i].name] =
           PyStr(Append(SweepFolder, Sanitize(simulations[i].name)))
    /\ IF Truthy(output_folder) THEN MappingWritten
       ELSE \A p \in DOMAIN files : p[1] = base_path[1]

\* three simulations were registered with an output folder: two of the same
\* name and one whose name differs from theirs by a blank only
C12_Witness ==
  /\ Registered
  /\ Len(simulations) = 3
  /\ simulations[1].name = simulations[3].name
  /\ simulations[2].name # simulations[1].name
  /\ Sanitize(simulations[2].name) = simulations[1].name
  /\ Cardinality(SimFolders) = 1
  /\ Cardinality(DOMAIN db_folders[1]) = 2
  /\ Truthy(output_folder)
  /\ MappingWritten

\* ------------------------------------------------------- sweep detection
\* ---------------------------------------------------------------- bounds
MaxSweepSims == 3    \* number of simulations of a sweep

\* the name of the i-th simulation of a sweep
SweepSimName(i) == <<"cap", "_", Digits[i + 1]>>

\* the function f without the key k
Without(f, k) == [x \in DOMAIN f \ {k} |-> f[x]]

\* The parameters of a simulation: numbers, a number given as a string, a
\* flag; a simulation of another class has no finger_length.
SweepParams ==
  LET full == [finger_gap : {PyInt(1), PyInt(2), PyStr("1")},
               finger_length : {PyInt(1), PyInt(2)},
               finger_width : {PyInt(1), PyInt(2)},
               use_ports : {PyBool(TRUE), PyBool(FALSE)}]
  IN  full \cup {Without(p, "finger_length") : p \in full}

\* the objects of the list: simulations, and an object without
\* get_parameters
SweepObjects ==
  [has_get_parameters : {TRUE}, params : SweepParams]
  \cup {[has_get_parameters |-> FALSE, params |-> [k \in {} |-> PyNone]]}

\* the list of the objects, named in their order
Sweep(objs) ==
  [i \in DOMAIN objs |-> [name |-> SweepSimName(i),
                          has_get_parameters |-> objs[i].has_get_parameters,
                          params |-> objs[i].params]]

InitSweep ==
  /\ RunnerIdle
  /\ QueueUnused
  /\ files = NewDatabase
  /\ \E n \in 0..MaxSweepSims : \E objs \in [1..n -> SweepObjects] :
       simulations = Sweep(objs)
  /\ export_parameters \in ExportParameters
  /\ output_folder = None
  /\ varied_params = None
  /\ sweep_folder_name = None
  /\ db_folders = None

\* varied_params = self._detect_varied_parameters(simulations, sim_parameters)
DetectVariedParameters ==
  /\ varied_params = None
  /\ varied_params' = Some(detect_varied_parameters(simulations))
  /\ UNCHANGED <<simulations, export_parameters, output_folder,
                 sweep_folder_name, db_folders, files, queue, loaded, written,
                 runnerVars>>

\* sweep_folder_name = self._generate_sweep_folder_name(timestamp,
\*                                          varied_params, export_parameters)
GenerateSweepFolderName ==
  /\ varied_params # None
  /\ sweep_folder_name = None
  /\ sweep_folder_name' =
       Some(generate_sweep_folder_name(varied_params[1], export_parameters))
  /\ UNCHANGED <<simulations, export_parameters, output_folder, varied_params,
                 db_folders, files, queue, loaded, written, runnerVars>>

NextSweep ==
  \/ DetectVariedParameters
  \/ GenerateSweepFolderName

SpecSweep == InitSweep /\ [][NextSweep]_vars

\* two simulations have different values for the key
Varies(key) ==
  \E i, j \in 1..Len(simulations) :
    /\ key \in DOMAIN GetParameters(simulations[i])
    /\ key \in DOMAIN GetParameters(simulations[j])
    /\ GetParameters(simulations[i])[key] # GetParameters(simulations[j])[key]

\* the parameter keys of the simulations
AllKeys == UNION {DOMAIN GetParameters(simulations[i]) :
                    i \in 1..Len(simulations)}

\* the first two of the names in alphabetical order
FirstTwo(names) ==
  SubSeq(Sorted(names), 1, IF Cardinality(names) < 2 THEN Cardinality(names)
                           ELSE 2)

\* C13: the keys of the value of _detect_varied_parameters are exactly the
\* parameter keys outside name, extra_json_data, box and face_stack for which
\* two simulations have different values, none for at most one simulation;
\* the sweep folder is named by the timestamp, the first two (in
\* alphabetical order) of the varied names that count for the name, "sweep"
\* and the tool, or by the timestamp, "single" and the tool if there is none.
C13_SweepDetection ==
  /\ varied_params # None =>
       /\ Len(simulations) <= 1 => DOMAIN varied_params[1] = {}
       /\ DOMAIN varied_params[1] \subseteq AllKeys \ DetectExcluded
       /\ \A key \in AllKeys \ DetectExcluded :
            key \in DOMAIN varied_params[1] <=> Varies(key)
  /\ sweep_folder_name # None =>
       LET names == DOMAIN varied_params[1] \ NameExcluded
       IN  sweep_folder_name[1] =
             IF names # {}
             THEN <<timestamp_str, "_">> \o Join(FirstTwo(names))
                    \o <<"_", "sweep", "_", Tool(export_parameters)>>
             ELSE <<timestamp_str, "_", "single", "_",
                    Tool(export_parameters)>>
====
